---- MODULE Spec2Model ----
(***************************************************************************)
(* Model of pytorch_lightning/trainer/connectors/callback_connector.py:    *)
(* CallbackConnector.on_trainer_init resolves the Trainer's flags into the *)
(* trainer's callback list, one configuration step after the other, and    *)
(* CallbackConnector._attach_model_callbacks later merges the callbacks    *)
(* returned by LightningModule.configure_callbacks into that list.         *)
(*                                                                         *)
(* A callback is a record [type, id, arg]: its concrete class, its object  *)
(* identity and the constructor argument the connector passes (the refresh *)
(* rate of a ProgressBar, the epoch-0 value of a scheduler).  Callbacks    *)
(* the caller passes have id 1..MaxLen (their position), the defaults the  *)
(* connector constructs have id 0, the callbacks of the model have ids     *)
(* above MaxLen.  An Optional value is a sequence of length 0 (None) or 1. *)
(*                                                                         *)
(* on_trainer_init is one action: it runs every step up to its last        *)
(* statement or to the first raise, and `steps` records the list each      *)
(* completed step left.  The folder paths, process_position and the        *)
(* deprecation messages change nothing in the list and are left out; the   *)
(* constructors of the callbacks are taken to succeed (the values of       *)
(* accumulate_grad_batches of type int or dict are valid schedules).       *)
(***************************************************************************)
EXTENDS Integers, Sequences, FiniteSets, TLC

\* Longest list of callbacks passed to the Trainer.
MaxLen == 2
\* Longest list returned by LightningModule.configure_callbacks.
MaxModelLen == 2

None == <<>>
Some(v) == <<v>>

Cb(t, i, a) == [type |-> t, id |-> i, arg |-> a]

\* Concrete callback classes the caller may pass in `callbacks`.
TrainerTypes ==
    {"ModelCheckpoint", "ProgressBar", "RichProgressBar", "ModelSummary",
     "GradientAccumulationScheduler", "StochasticWeightAveraging", "Timer"}

\* Concrete callback classes LightningModule.configure_callbacks may return.
ModelTypes ==
    {"ModelCheckpoint", "ProgressBar", "GradientAccumulationScheduler", "EarlyStopping"}

\* isinstance(c, cls): cls is the concrete class of c or one of its bases.
\* ProgressBar and RichProgressBar derive from ProgressBarBase,
\* RichModelSummary from ModelSummary, every class from Callback.
subclass(t, cls) ==
    \/ cls = t
    \/ cls = "Callback"
    \/ cls = "ProgressBarBase" /\ t \in {"ProgressBar", "RichProgressBar"}
    \/ cls = "ModelSummary" /\ t = "RichModelSummary"

isinstance(c, cls) == subclass(c.type, cls)

type(c) == c.type

\* ModelSummaryMode.supported_types()
supported_types == {"top", "full"}

\* ModelSummaryMode.get_max_depth(mode)
get_max_depth(mode) == IF mode = "top" THEN 1 ELSE 0 - 1

\* Lists of at most n callbacks of the classes ts, with ids base+1, base+2, ...
CallbackLists(ts, n, base) ==
    UNION {{[i \in 1..k |-> Cb(f[i], base + i, 0)] : f \in [1..k -> ts]} : k \in 0..n}

NoError == "none"

--------------------------------------------------------------------------
(* The pure parts of the connector.                                        *)

\* Trainer.checkpoint_callbacks
checkpoint_callbacks(cbs) == SelectSeq(cbs, LAMBDA c : isinstance(c, "ModelCheckpoint"))

_trainer_has_checkpoint_callbacks(cbs) == Len(checkpoint_callbacks(cbs)) > 0

\* Variant: the checkpoints are put in front.
_reorder_callbacks_front(cbs) ==
    LET checkpoints == SelectSeq(cbs, LAMBDA c : isinstance(c, "ModelCheckpoint"))
        not_checkpoints == SelectSeq(cbs, LAMBDA c : ~isinstance(c, "ModelCheckpoint"))
    IN  checkpoints \o not_checkpoints

_reorder_callbacks(cbs) ==
    LET checkpoints == SelectSeq(cbs, LAMBDA c : isinstance(c, "ModelCheckpoint"))
        not_checkpoints == SelectSeq(cbs, LAMBDA c : ~isinstance(c, "ModelCheckpoint"))
    IN  not_checkpoints \o checkpoints

\* Variant: checkpoint_callback=False raises whether or not a checkpoint is in the list.
_configure_checkpoint_callbacks_nohas(cbs, checkpoint_callback) ==
    IF checkpoint_callback \notin {"True", "False"}
    THEN [callbacks |-> cbs, error |-> "checkpoint_callback_type"]
    ELSE IF checkpoint_callback = "False"
    THEN [callbacks |-> cbs, error |-> "checkpoint_callback_false"]
    ELSE IF ~_trainer_has_checkpoint_callbacks(cbs) /\ checkpoint_callback = "True"
    THEN [callbacks |-> Append(cbs, Cb("ModelCheckpoint", 0, 0)), error |-> NoError]
    ELSE [callbacks |-> cbs, error |-> NoError]

\* checkpoint_callback is "True", "False", or "Callback" (a value that is not a bool).
_configure_checkpoint_callbacks(cbs, checkpoint_callback) ==
    IF checkpoint_callback \notin {"True", "False"}
    THEN [callbacks |-> cbs, error |-> "checkpoint_callback_type"]
    ELSE IF _trainer_has_checkpoint_callbacks(cbs) /\ checkpoint_callback = "False"
    THEN [callbacks |-> cbs, error |-> "checkpoint_callback_false"]
    ELSE IF ~_trainer_has_checkpoint_callbacks(cbs) /\ checkpoint_callback = "True"
    THEN [callbacks |-> Append(cbs, Cb("ModelCheckpoint", 0, 0)), error |-> NoError]
    ELSE [callbacks |-> cbs, error |-> NoError]

\* Variant: the default StochasticWeightAveraging is appended.
_configure_swa_callbacks_append(cbs, stochastic_weight_avg) ==
    IF ~stochastic_weight_avg
    THEN cbs
    ELSE LET existing_swa == SelectSeq(cbs, LAMBDA c : isinstance(c, "StochasticWeightAveraging"))
         IN  IF existing_swa = <<>>
             THEN Append(cbs, Cb("StochasticWeightAveraging", 0, 0))
             ELSE cbs

_configure_swa_callbacks(cbs, stochastic_weight_avg) ==
    IF ~stochastic_weight_avg
    THEN cbs
    ELSE LET existing_swa == SelectSeq(cbs, LAMBDA c : isinstance(c, "StochasticWeightAveraging"))
         IN  IF existing_swa = <<>>
             THEN <<Cb("StochasticWeightAveraging", 0, 0)>> \o cbs
             ELSE cbs

_configure_timer_callback(cbs, max_time) ==
    IF max_time = None
    THEN cbs
    ELSE IF \E i \in 1..Len(cbs) : isinstance(cbs[i], "Timer")
    THEN cbs
    ELSE Append(cbs, Cb("Timer", 0, 0))

\* Variant: RichProgressBar is chosen whenever rich is available.
configure_progress_bar_rich(cbs, refresh_rate, RICH_AVAILABLE, COLAB_GPU) ==
    LET progress_bars == SelectSeq(cbs, LAMBDA c : isinstance(c, "ProgressBarBase"))
        rate == IF COLAB_GPU /\ refresh_rate = None THEN 20
                ELSE IF refresh_rate = None THEN 1 ELSE refresh_rate[1]
        tqdm == Cb("ProgressBar", 0, rate)
        rich == Cb("RichProgressBar", 0, 0)
    IN  IF Len(progress_bars) > 1
        THEN [callbacks |-> cbs, ret |-> None, error |-> "multiple_progress_bars", warn |-> FALSE]
        ELSE IF Len(progress_bars) = 1
        THEN [callbacks |-> cbs, ret |-> Some(progress_bars[1]), error |-> NoError, warn |-> FALSE]
        ELSE IF refresh_rate # Some(0)
        THEN IF RICH_AVAILABLE
             THEN [callbacks |-> Append(cbs, rich), ret |-> Some(rich), error |-> NoError, warn |-> FALSE]
             ELSE [callbacks |-> Append(cbs, tqdm), ret |-> Some(tqdm), error |-> NoError,
                   warn |-> FALSE]
        ELSE [callbacks |-> cbs, ret |-> None, error |-> NoError, warn |-> FALSE]

\* refresh_rate is None or Some(n); the result is the list, the returned
\* progress bar (None or Some(callback)), the error and whether
\* rank_zero_warn was called.
configure_progress_bar(cbs, refresh_rate, RICH_AVAILABLE, COLAB_GPU) ==
    LET progress_bars == SelectSeq(cbs, LAMBDA c : isinstance(c, "ProgressBarBase"))
        rate == IF COLAB_GPU /\ refresh_rate = None THEN 20
                ELSE IF refresh_rate = None THEN 1 ELSE refresh_rate[1]
        tqdm == Cb("ProgressBar", 0, rate)
        rich == Cb("RichProgressBar", 0, 0)
    IN  IF Len(progress_bars) > 1
        THEN [callbacks |-> cbs, ret |-> None, error |-> "multiple_progress_bars", warn |-> FALSE]
        ELSE IF Len(progress_bars) = 1
        THEN [callbacks |-> cbs, ret |-> Some(progress_bars[1]), error |-> NoError, warn |-> FALSE]
        ELSE IF refresh_rate # Some(0)
        THEN IF RICH_AVAILABLE /\ refresh_rate = None
             THEN [callbacks |-> Append(cbs, rich), ret |-> Some(rich), error |-> NoError, warn |-> FALSE]
             ELSE [callbacks |-> Append(cbs, tqdm), ret |-> Some(tqdm), error |-> NoError,
                   warn |-> RICH_AVAILABLE]
        ELSE [callbacks |-> cbs, ret |-> None, error |-> NoError, warn |-> FALSE]

\* Variant: weights_summary is not validated.
_configure_model_summary_callback_novalidate(cbs, weights_summary, progress_bar_callback) ==
    IF \E i \in 1..Len(cbs) : isinstance(cbs[i], "ModelSummary")
    THEN [callbacks |-> cbs, error |-> NoError]
    ELSE IF weights_summary # None
    THEN LET max_depth == get_max_depth(weights_summary[1])
             model_summary ==
                 IF progress_bar_callback # None
                      /\ isinstance(progress_bar_callback[1], "RichProgressBar")
                 THEN Cb("RichModelSummary", 0, max_depth)
                 ELSE Cb("ModelSummary", 0, max_depth)
         IN  [callbacks |-> Append(cbs, model_summary), error |-> NoError]
    ELSE [callbacks |-> cbs, error |-> NoError]

\* Variant: RichModelSummary is chosen for every progress bar.
_configure_model_summary_callback_anybar(cbs, weights_summary, progress_bar_callback) ==
    IF \E i \in 1..Len(cbs) : isinstance(cbs[i], "ModelSummary")
    THEN [callbacks |-> cbs, error |-> NoError]
    ELSE IF weights_summary # None
    THEN IF weights_summary[1] \notin supported_types
         THEN [callbacks |-> cbs, error |-> "weights_summary"]
         ELSE LET max_depth == get_max_depth(weights_summary[1])
                  model_summary ==
                      IF progress_bar_callback # None
                           /\ isinstance(progress_bar_callback[1], "ProgressBarBase")
                      THEN Cb("RichModelSummary", 0, max_depth)
                      ELSE Cb("ModelSummary", 0, max_depth)
              IN  [callbacks |-> Append(cbs, model_summary), error |-> NoError]
    ELSE [callbacks |-> cbs, error |-> NoError]

\* weights_summary is None or Some(string); progress_bar_callback is
\* trainer._progress_bar_callback.
_configure_model_summary_callback(cbs, weights_summary, progress_bar_callback) ==
    IF \E i \in 1..Len(cbs) : isinstance(cbs[i], "ModelSummary")
    THEN [callbacks |-> cbs, error |-> NoError]
    ELSE IF weights_summary # None
    THEN IF weights_summary[1] \notin supported_types
         THEN [callbacks |-> cbs, error |-> "weights_summary"]
         ELSE LET max_depth == get_max_depth(weights_summary[1])
                  model_summary ==
                      IF progress_bar_callback # None
                           /\ isinstance(progress_bar_callback[1], "RichProgressBar")
                      THEN Cb("RichModelSummary", 0, max_depth)
                      ELSE Cb("ModelSummary", 0, max_depth)
              IN  [callbacks |-> Append(cbs, model_summary), error |-> NoError]
    ELSE [callbacks |-> cbs, error |-> NoError]

\* Variant: an explicit value next to a scheduler in the list is ignored.
_configure_accumulated_gradients_noraise(cbs, accumulate_grad_batches) ==
    LET grad_accum_callback == SelectSeq(cbs, LAMBDA c : isinstance(c, "GradientAccumulationScheduler"))
        value == IF accumulate_grad_batches = None THEN [ty |-> "int", v |-> 1]
                 ELSE accumulate_grad_batches[1]
        new == Cb("GradientAccumulationScheduler", 0, value.v)
    IN  IF grad_accum_callback # <<>>
        THEN [callbacks |-> cbs, scheduler |-> Some(grad_accum_callback[1]), error |-> NoError]
        ELSE IF value.ty \in {"dict", "int"}
        THEN [callbacks |-> Append(cbs, new), scheduler |-> Some(new), error |-> NoError]
        ELSE [callbacks |-> cbs, scheduler |-> None, error |-> "accumulate_grad_batches_type"]

\* Variant: the scheduler is appended before the type of the value is checked.
_configure_accumulated_gradients_late(cbs, accumulate_grad_batches) ==
    LET grad_accum_callback == SelectSeq(cbs, LAMBDA c : isinstance(c, "GradientAccumulationScheduler"))
        value == IF accumulate_grad_batches = None THEN [ty |-> "int", v |-> 1]
                 ELSE accumulate_grad_batches[1]
        new == Cb("GradientAccumulationScheduler", 0, value.v)
    IN  IF grad_accum_callback # <<>>
        THEN IF accumulate_grad_batches # None
             THEN [callbacks |-> cbs, scheduler |-> None, error |-> "accumulate_grad_batches_both"]
             ELSE [callbacks |-> cbs, scheduler |-> Some(grad_accum_callback[1]), error |-> NoError]
        ELSE IF value.ty \in {"dict", "int"}
        THEN [callbacks |-> Append(cbs, new), scheduler |-> Some(new), error |-> NoError]
        ELSE [callbacks |-> Append(cbs, new), scheduler |-> None,
              error |-> "accumulate_grad_batches_type"]

\* accumulate_grad_batches is None or Some([ty, v]): ty is "int" (the value
\* v), "dict" (the mapping {0: v}) or another type.
_configure_accumulated_gradients(cbs, accumulate_grad_batches) ==
    LET grad_accum_callback == SelectSeq(cbs, LAMBDA c : isinstance(c, "GradientAccumulationScheduler"))
        value == IF accumulate_grad_batches = None THEN [ty |-> "int", v |-> 1]
                 ELSE accumulate_grad_batches[1]
        new == Cb("GradientAccumulationScheduler", 0, value.v)
    IN  IF grad_accum_callback # <<>>
        THEN IF accumulate_grad_batches # None
             THEN [callbacks |-> cbs, scheduler |-> None, error |-> "accumulate_grad_batches_both"]
             ELSE [callbacks |-> cbs, scheduler |-> Some(grad_accum_callback[1]), error |-> NoError]
        ELSE IF value.ty \in {"dict", "int"}
        THEN [callbacks |-> Append(cbs, new), scheduler |-> Some(new), error |-> NoError]
        ELSE [callbacks |-> cbs, scheduler |-> None, error |-> "accumulate_grad_batches_type"]

\* Variant: only the first trainer callback of an overridden type is removed.
merge_model_callbacks_first(cbs, model_cbs) ==
    LET model_callback_types == {type(model_cbs[i]) : i \in 1..Len(model_cbs)}
        trainer_callback_types == {type(cbs[i]) : i \in 1..Len(cbs)}
        override_types == model_callback_types \cap trainer_callback_types
        first(i) == \A j \in 1..(i - 1) : type(cbs[j]) # type(cbs[i])
        keep == {i \in 1..Len(cbs) : ~(type(cbs[i]) \in override_types /\ first(i))}
        sub[i \in 0..Len(cbs)] ==
            IF i = 0 THEN <<>>
            ELSE IF i \in keep THEN Append(sub[i - 1], cbs[i]) ELSE sub[i - 1]
        all_callbacks == sub[Len(cbs)]
    IN  [all_callbacks |-> all_callbacks \o model_cbs,
         callbacks |-> _reorder_callbacks(all_callbacks \o model_cbs)]

\* _attach_model_callbacks for a non-empty model list: the list passed to
\* _reorder_callbacks and the list stored in trainer.callbacks.
merge_model_callbacks(cbs, model_cbs) ==
    LET model_callback_types == {type(model_cbs[i]) : i \in 1..Len(model_cbs)}
        trainer_callback_types == {type(cbs[i]) : i \in 1..Len(cbs)}
        override_types == model_callback_types \cap trainer_callback_types
        all_callbacks == SelectSeq(cbs, LAMBDA c : type(c) \notin override_types)
    IN  [all_callbacks |-> all_callbacks \o model_cbs,
         callbacks |-> _reorder_callbacks(all_callbacks \o model_cbs)]

--------------------------------------------------------------------------
(* The state.                                                              *)

VARIABLES
    pc,                       \* position of the connector
    args,                     \* arguments of the on_trainer_init call (NoArgs outside it)
    steps,                    \* trainer.callbacks after each step of the call (NoSteps outside it)
    env,                      \* _RICH_AVAILABLE and os.getenv("COLAB_GPU")
    callbacks,                \* trainer.callbacks
    _stochastic_weight_avg,   \* trainer._stochastic_weight_avg
    _progress_bar_callback,   \* trainer._progress_bar_callback
    accumulation_scheduler,   \* trainer.accumulation_scheduler
    error,                    \* the MisconfigurationException raised, if any
    warned,                   \* rank_zero_warn about RichProgressBar was called
    reorder_input,            \* argument of the last _reorder_callbacks call
    before_attach,            \* trainer.callbacks on entry of _attach_model_callbacks
    model_callbacks           \* result of the configure_callbacks hook

vars == <<pc, args, steps, env, callbacks, _stochastic_weight_avg, _progress_bar_callback,
          accumulation_scheduler, error, warned, reorder_input, before_attach,
          model_callbacks>>

NoArgs ==
    [callbacks |-> <<>>, checkpoint_callback |-> "True", enable_progress_bar |-> TRUE,
     progress_bar_refresh_rate |-> None, weights_summary |-> None,
     stochastic_weight_avg |-> FALSE, max_time |-> None, accumulate_grad_batches |-> None]

ArgSets ==
    [callbacks : CallbackLists(TrainerTypes, MaxLen, 0),
     checkpoint_callback : {"True", "False", "Callback"},
     enable_progress_bar : BOOLEAN,
     progress_bar_refresh_rate : {None, Some(0), Some(5)},
     weights_summary : {None, Some("top"), Some("bogus")},
     stochastic_weight_avg : BOOLEAN,
     max_time : {None, Some("00:12:00:00")},
     accumulate_grad_batches : {None, Some([ty |-> "int", v |-> 4]),
                                Some([ty |-> "dict", v |-> 2]), Some([ty |-> "str", v |-> 0])}]

\* The calls made before _attach_model_callbacks is followed: every list, with
\* the flags that decide which defaults join it.
MergeArgSets ==
    [callbacks : CallbackLists(TrainerTypes, MaxLen, 0),
     checkpoint_callback : {"True", "False"},
     enable_progress_bar : BOOLEAN,
     progress_bar_refresh_rate : {None},
     weights_summary : {None, Some("top")},
     stochastic_weight_avg : BOOLEAN,
     max_time : {None},
     accumulate_grad_batches : {None}]

EnvSets == [RICH_AVAILABLE : BOOLEAN, COLAB_GPU : BOOLEAN]

\* steps.x is None while step x has not completed, Some(list) after it.
NoSteps ==
    [checkpoint |-> None, swa |-> None, timer |-> None, progress_bar |-> None,
     model_summary |-> None, accumulated_gradients |-> None]

Init ==
    /\ pc = "new"
    /\ args = NoArgs
    /\ steps = NoSteps
    /\ env \in EnvSets
    /\ callbacks = <<>>
    /\ _stochastic_weight_avg = FALSE
    /\ _progress_bar_callback = None
    /\ accumulation_scheduler = None
    /\ error = NoError
    /\ warned = FALSE
    /\ reorder_input = <<>>
    /\ before_attach = <<>>
    /\ model_callbacks = <<>>

\* on_trainer_init raises e in a step: the list is the one that step left.
Raised(cbs, e, st, pb, w) ==
    [pc |-> "raised", callbacks |-> cbs, error |-> e, steps |-> st,
     _progress_bar_callback |-> pb, warned |-> w, accumulation_scheduler |-> None,
     reorder_input |-> <<>>]

\* The trainer after on_trainer_init has run to its last statement or to the
\* statement that raises: r1, r4, r5, r6 are the results of the checkpoint,
\* progress bar, summary and accumulation steps, c2 and c3 the lists after
\* the swa and timer steps.
run_on_trainer_init(r1, c2, c3, r4, r5, r6) ==
    LET s1 == [NoSteps EXCEPT !.checkpoint = Some(r1.callbacks)]
        s3 == [s1 EXCEPT !.swa = Some(c2), !.timer = Some(c3)]
        s4 == [s3 EXCEPT !.progress_bar = Some(r4.callbacks)]
        s5 == [s4 EXCEPT !.model_summary = Some(r5.callbacks)]
        s6 == [s5 EXCEPT !.accumulated_gradients = Some(r6.callbacks)]
    IN  IF r1.error # NoError THEN Raised(r1.callbacks, r1.error, NoSteps, None, FALSE)
        ELSE IF r4.error # NoError THEN Raised(r4.callbacks, r4.error, s3, None, r4.warn)
        ELSE IF r5.error # NoError THEN Raised(r5.callbacks, r5.error, s4, r4.ret, r4.warn)
        ELSE IF r6.error # NoError THEN Raised(r6.callbacks, r6.error, s5, r4.ret, r4.warn)
        ELSE [pc |-> "initialized", callbacks |-> _reorder_callbacks(r6.callbacks),
              error |-> NoError, steps |-> s6, _progress_bar_callback |-> r4.ret,
              warned |-> r4.warn, accumulation_scheduler |-> r6.scheduler,
              reorder_input |-> r6.callbacks]

on_trainer_init_with(arg_sets) ==
    /\ pc = "new"
    /\ \E a \in arg_sets :
       \E r1 \in {_configure_checkpoint_callbacks(a.callbacks, a.checkpoint_callback)} :
       \E c2 \in {_configure_swa_callbacks(r1.callbacks, a.stochastic_weight_avg)} :
       \E c3 \in {_configure_timer_callback(c2, a.max_time)} :
       \E r4 \in {IF a.enable_progress_bar
                  THEN configure_progress_bar(c3, a.progress_bar_refresh_rate,
                                              env.RICH_AVAILABLE, env.COLAB_GPU)
                  ELSE [callbacks |-> c3, ret |-> None, error |-> NoError, warn |-> FALSE]} :
       \E r5 \in {_configure_model_summary_callback(r4.callbacks, a.weights_summary, r4.ret)} :
       \E r6 \in {_configure_accumulated_gradients(r5.callbacks, a.accumulate_grad_batches)} :
       \E t \in {run_on_trainer_init(r1, c2, c3, r4, r5, r6)} :
             /\ args' = a
             /\ _stochastic_weight_avg' = a.stochastic_weight_avg
             /\ pc' = t.pc
             /\ callbacks' = t.callbacks
             /\ error' = t.error
             /\ steps' = t.steps
             /\ _progress_bar_callback' = t._progress_bar_callback
             /\ warned' = t.warned
             /\ accumulation_scheduler' = t.accumulation_scheduler
             /\ reorder_input' = t.reorder_input
    /\ UNCHANGED <<env, before_attach, model_callbacks>>

on_trainer_init == on_trainer_init_with(ArgSets)

on_trainer_init_merge == on_trainer_init_with(MergeArgSets)

\* on_trainer_init returns to Trainer.__init__: its frame is gone.
on_trainer_init_return ==
    /\ pc = "initialized"
    /\ pc' = "ready"
    /\ args' = NoArgs
    /\ steps' = NoSteps
    /\ UNCHANGED <<env, callbacks, _stochastic_weight_avg, _progress_bar_callback,
                   accumulation_scheduler, error, warned, reorder_input, before_attach,
                   model_callbacks>>

_attach_model_callbacks ==
    /\ pc = "ready"
    /\ \E m \in CallbackLists(ModelTypes, MaxModelLen, MaxLen) :
         /\ model_callbacks' = m
         /\ before_attach' = callbacks
         /\ IF m = <<>>
            THEN UNCHANGED <<callbacks, reorder_input>>
            ELSE \E r \in {merge_model_callbacks(callbacks, m)} :
                     /\ callbacks' = r.callbacks
                     /\ reorder_input' = r.all_callbacks
    /\ pc' = "attached"
    /\ UNCHANGED <<args, steps, env, _stochastic_weight_avg, _progress_bar_callback,
                   accumulation_scheduler, error, warned>>

\* Every call of on_trainer_init, up to its last statement or its raise.
Next == on_trainer_init

Spec == Init /\ [][Next]_vars

\* The life of the list: on_trainer_init, then _attach_model_callbacks.
NextMerge ==
    \/ on_trainer_init_merge
    \/ on_trainer_init_return
    \/ _attach_model_callbacks

SpecMerge == Init /\ [][NextMerge]_vars

TypeOK ==
    /\ pc \in {"new", "initialized", "ready", "attached", "raised"}
    /\ (pc = "raised") = (error # NoError)

--------------------------------------------------------------------------
(* Vocabulary of the properties.                                           *)

\* on_trainer_init has run to its end or to a raise, and its frame is still there.
Called == pc \in {"initialized", "raised"}

Count(cbs, cls) == Cardinality({i \in 1..Len(cbs) : isinstance(cbs[i], cls)})

Has(cbs, cls) == Count(cbs, cls) > 0

IsCheckpoint(c) == isinstance(c, "ModelCheckpoint")

NotCheckpoint(c) == ~isinstance(c, "ModelCheckpoint")

\* No callback that is not a checkpoint follows a checkpoint.
CheckpointsLast(cbs) ==
    \A i \in 1..(Len(cbs) - 1) : IsCheckpoint(cbs[i]) => IsCheckpoint(cbs[i + 1])

\* post holds the elements of pre, each group in the order it has in pre.
SameGroups(post, pre) ==
    /\ Len(post) = Len(pre)
    /\ SelectSeq(post, IsCheckpoint) = SelectSeq(pre, IsCheckpoint)
    /\ SelectSeq(post, NotCheckpoint) = SelectSeq(pre, NotCheckpoint)

\* post is pre with exactly one callback appended, of concrete class t and built by the connector.
AppendsOne(post, pre, t) ==
    /\ Len(post) = Len(pre) + 1
    /\ SubSeq(post, 1, Len(pre)) = pre
    /\ post[Len(post)].type = t
    /\ post[Len(post)].id = 0

Last(cbs) == cbs[Len(cbs)]

--------------------------------------------------------------------------
(* C1: whenever on_trainer_init has returned without error, and after     *)
(* _attach_model_callbacks, every ModelCheckpoint in trainer.callbacks     *)
(* comes after every other callback, and the list holds exactly the        *)
(* callbacks that were passed to _reorder_callbacks, each of the two       *)
(* groups in the order it had there.                                       *)
C1_ReorderIsStablePartition ==
    pc \in {"initialized", "ready", "attached"} =>
        /\ CheckpointsLast(callbacks)
        /\ SameGroups(callbacks, reorder_input)

C1_Witness ==
    /\ pc = "attached"
    /\ model_callbacks # <<>>
    /\ callbacks # reorder_input
    /\ Count(callbacks, "ModelCheckpoint") >= 2
    /\ Len(callbacks) - Count(callbacks, "ModelCheckpoint") >= 2

(* C2: for a boolean checkpoint_callback, _configure_checkpoint_callbacks  *)
(* raises exactly when a ModelCheckpoint is in the list and the flag is    *)
(* False; with none in the list and the flag True it appends exactly one   *)
(* default ModelCheckpoint; in the two other cases it leaves the list as   *)
(* it is.                                                                  *)
C2_CheckpointTruthTable ==
    Called /\ args.checkpoint_callback \in {"True", "False"} =>
        LET present == Has(args.callbacks, "ModelCheckpoint")
            flag == args.checkpoint_callback = "True"
        IN  /\ (error = "checkpoint_callback_false") = (present /\ ~flag)
            /\ (steps.checkpoint = None) = (present /\ ~flag)
            /\ error # "checkpoint_callback_type"
            /\ ~present /\ flag =>
                   AppendsOne(steps.checkpoint[1], args.callbacks, "ModelCheckpoint")
            /\ present = flag => steps.checkpoint = Some(args.callbacks)

C2_Witness ==
    /\ pc = "raised"
    /\ error = "checkpoint_callback_false"
    /\ Has(args.callbacks, "ModelCheckpoint")
    /\ args.checkpoint_callback = "False"

(* C3: with a GradientAccumulationScheduler in the list passed to          *)
(* on_trainer_init and accumulate_grad_batches not None, on_trainer_init   *)
(* raises, whatever the value and the other flags; with                    *)
(* accumulate_grad_batches None it does not raise either error of          *)
(* _configure_accumulated_gradients and no scheduler is added.             *)
C3_ValueAndSchedulerRaise ==
    Called /\ Has(args.callbacks, "GradientAccumulationScheduler") =>
        IF args.accumulate_grad_batches # None
        THEN pc = "raised"
        ELSE /\ error \notin {"accumulate_grad_batches_both", "accumulate_grad_batches_type"}
             /\ Count(callbacks, "GradientAccumulationScheduler")
                    = Count(args.callbacks, "GradientAccumulationScheduler")
             /\ pc = "initialized" => steps.accumulated_gradients = steps.model_summary

C3_Witness ==
    /\ pc = "raised"
    /\ error = "accumulate_grad_batches_both"
    /\ Has(args.callbacks, "GradientAccumulationScheduler")
    /\ args.accumulate_grad_batches = Some([ty |-> "dict", v |-> 2])

(* C4: whenever on_trainer_init has returned without error, and after     *)
(* _attach_model_callbacks, trainer.callbacks holds at most one            *)
(* ProgressBarBase and at most one GradientAccumulationScheduler.          *)
C4_AtMostOneDisplayAndScheduler ==
    pc \in {"initialized", "ready", "attached"} =>
        /\ Count(callbacks, "ProgressBarBase") <= 1
        /\ Count(callbacks, "GradientAccumulationScheduler") <= 1

(* C5: after _attach_model_callbacks with a non-empty model list,          *)
(* trainer.callbacks is the reordering (checkpoints last, both groups in   *)
(* their order) of: the former trainer callbacks whose concrete type is    *)
(* the concrete type of no model callback, followed by all the model       *)
(* callbacks.                                                              *)
C5_MergeOverridesByType ==
    pc = "attached" /\ model_callbacks # <<>> =>
        LET overridden(c) == \E i \in 1..Len(model_callbacks) : model_callbacks[i].type = c.type
            kept(c) == ~overridden(c)
            joined == SelectSeq(before_attach, kept) \o model_callbacks
        IN  /\ CheckpointsLast(callbacks)
            /\ SameGroups(callbacks, joined)
            /\ \A i \in 1..Len(before_attach) :
                   overridden(before_attach[i]) =>
                       \A j \in 1..Len(callbacks) : callbacks[j] # before_attach[i]

C5_Witness ==
    /\ pc = "attached"
    /\ Len(model_callbacks) = 2
    /\ model_callbacks[1].type # model_callbacks[2].type
    /\ Cardinality({i \in 1..Len(before_attach) :
                        before_attach[i].type = model_callbacks[1].type}) >= 2
    /\ Len(callbacks) > Len(model_callbacks)

(* C6: with enable_progress_bar and no ProgressBarBase in the list,        *)
(* configure_progress_bar gives RichProgressBar for rich available and no  *)
(* rate; ProgressBar with the given rate and a warning for rich available  *)
(* and a non-zero rate; ProgressBar with rate 1 (20 under COLAB_GPU) for   *)
(* rich unavailable and no rate; no callback and None for rate 0.  In the  *)
(* non-zero cases exactly one progress bar is appended and it is           *)
(* trainer._progress_bar_callback.                                         *)
C6_ProgressBarSelection ==
    Called /\ args.enable_progress_bar /\ ~Has(args.callbacks, "ProgressBarBase")
           /\ steps.progress_bar # None =>
        LET pre == steps.timer[1]
            post == steps.progress_bar[1]
            rate == args.progress_bar_refresh_rate
            rich == env.RICH_AVAILABLE
        IN  /\ rate = Some(0) =>
                   /\ post = pre
                   /\ _progress_bar_callback = None
                   /\ ~Has(post, "ProgressBarBase")
            /\ rate # Some(0) =>
                   /\ Len(post) = Len(pre) + 1
                   /\ SubSeq(post, 1, Len(pre)) = pre
                   /\ Count(post, "ProgressBarBase") = 1
                   /\ _progress_bar_callback = Some(Last(post))
            /\ rich /\ rate = None =>
                   AppendsOne(post, pre, "RichProgressBar") /\ ~warned
            /\ rich /\ rate # None /\ rate # Some(0) =>
                   /\ AppendsOne(post, pre, "ProgressBar")
                   /\ Last(post).arg = rate[1]
                   /\ warned
            /\ ~rich /\ rate = None =>
                   /\ AppendsOne(post, pre, "ProgressBar")
                   /\ Last(post).arg = (IF env.COLAB_GPU THEN 20 ELSE 1)

C6_Witness ==
    /\ pc = "initialized"
    /\ args.enable_progress_bar
    /\ ~Has(args.callbacks, "ProgressBarBase")
    /\ env.RICH_AVAILABLE
    /\ args.progress_bar_refresh_rate = Some(5)
    /\ warned
    /\ _progress_bar_callback # None
    /\ _progress_bar_callback[1].type = "ProgressBar"

(* C7, as claimed: a weights_summary outside the supported modes always    *)
(* makes on_trainer_init raise, and at the raise no callback has been      *)
(* added to the list.                                                      *)
C7_UnsupportedModeAlwaysRaisesFirst ==
    Called /\ args.weights_summary # None /\ args.weights_summary[1] \notin {"top", "full"} =>
        /\ pc = "raised"
        /\ callbacks = args.callbacks

(* C7, amended: a weights_summary outside the supported modes makes        *)
(* on_trainer_init raise whenever the list passed in holds no ModelSummary;*)
(* the raise of the summary step comes before any summary or scheduler is  *)
(* added, the list being the one the progress bar step left.               *)
C7_UnsupportedModeRaisesWithoutSummary ==
    Called /\ args.weights_summary # None /\ args.weights_summary[1] \notin {"top", "full"}
           /\ ~Has(args.callbacks, "ModelSummary") =>
        /\ pc = "raised"
        /\ ~Has(callbacks, "ModelSummary")
        /\ error = "weights_summary" =>
               /\ steps.progress_bar = Some(callbacks)
               /\ steps.model_summary = None
               /\ Count(callbacks, "GradientAccumulationScheduler")
                      = Count(args.callbacks, "GradientAccumulationScheduler")

C7_Witness ==
    /\ pc = "raised"
    /\ error = "weights_summary"
    /\ args.weights_summary = Some("bogus")
    /\ Len(callbacks) > Len(args.callbacks)

(* C8, as claimed: when on_trainer_init raises, trainer.callbacks is the   *)
(* list the caller passed.                                                 *)
C8_RaiseLeavesCallerList ==
    pc = "raised" => callbacks = args.callbacks

\* The list left by the last step that completed.
LastCompleted ==
    IF steps.model_summary # None THEN steps.model_summary[1]
    ELSE IF steps.progress_bar # None THEN steps.progress_bar[1]
    ELSE IF steps.timer # None THEN steps.timer[1]
    ELSE IF steps.swa # None THEN steps.swa[1]
    ELSE IF steps.checkpoint # None THEN steps.checkpoint[1]
    ELSE args.callbacks

FromCaller(c) == c.id # 0

(* C8, amended: on_trainer_init either completes every step and the        *)
(* reordering, or raises; when it raises, trainer.callbacks is the list    *)
(* left by the steps that completed before the raising one (the raising    *)
(* step adds nothing): the caller's callbacks, in their order, with the    *)
(* callbacks those steps added, not reordered.                             *)
C8_RaiseKeepsCompletedSteps ==
    /\ pc = "initialized" =>
           /\ error = NoError
           /\ \A f \in DOMAIN steps : steps[f] # None
           /\ SameGroups(callbacks, steps.accumulated_gradients[1])
    /\ pc = "raised" =>
           /\ error # NoError
           /\ steps.accumulated_gradients = None
           /\ callbacks = LastCompleted
           /\ SelectSeq(callbacks, FromCaller) = args.callbacks

C8_Witness ==
    /\ pc = "raised"
    /\ error = "accumulate_grad_batches_type"
    /\ Len(callbacks) >= Len(args.callbacks) + 3
    /\ callbacks[1].id = 0

(* C9: with stochastic_weight_avg and no StochasticWeightAveraging in the  *)
(* list, exactly one default is added, in front of the list, and it is     *)
(* still the first callback after every later step and in the list         *)
(* on_trainer_init leaves; otherwise none is added.                        *)
C9_SwaIsPrepended ==
    Called /\ steps.swa # None =>
        LET swa == Cb("StochasticWeightAveraging", 0, 0)
            n == Count(args.callbacks, "StochasticWeightAveraging")
        IN  IF args.stochastic_weight_avg /\ n = 0
            THEN /\ steps.swa[1] = <<swa>> \o steps.checkpoint[1]
                 /\ \A f \in DOMAIN steps \ {"checkpoint"} :
                        steps[f] # None => steps[f][1][1] = swa
                 /\ callbacks[1] = swa
                 /\ Count(callbacks, "StochasticWeightAveraging") = 1
            ELSE /\ steps.swa = steps.checkpoint
                 /\ Count(callbacks, "StochasticWeightAveraging") = n

C9_Witness ==
    /\ pc = "initialized"
    /\ args.stochastic_weight_avg
    /\ ~Has(args.callbacks, "StochasticWeightAveraging")
    /\ Len(args.callbacks) >= 2
    /\ IsCheckpoint(args.callbacks[1])
    /\ callbacks[1].type = "StochasticWeightAveraging"

\* The summary step ran with no ModelSummary in the list and a supported mode.
SummaryCase ==
    /\ Called
    /\ steps.progress_bar # None
    /\ ~Has(args.callbacks, "ModelSummary")
    /\ args.weights_summary # None
    /\ args.weights_summary[1] \in {"top", "full"}

IsRich(pb) == pb # None /\ pb[1].type = "RichProgressBar"

(* C10, as claimed: the summary appended is RichModelSummary exactly when  *)
(* trainer._progress_bar_callback is a RichProgressBar, and it is the      *)
(* plain ModelSummary when the progress bar is disabled, the rate is 0 or  *)
(* the progress bar is the plain one.                                      *)
C10_SummaryPlainForRateZero ==
    SummaryCase =>
        /\ steps.model_summary # None
        /\ Last(steps.model_summary[1]).type = "RichModelSummary"
               <=> IsRich(_progress_bar_callback)
        /\ (\/ ~args.enable_progress_bar
            \/ args.progress_bar_refresh_rate = Some(0)
            \/ (_progress_bar_callback # None /\ _progress_bar_callback[1].type = "ProgressBar"))
               => Last(steps.model_summary[1]).type = "ModelSummary"

(* C10, amended: with no ModelSummary in the list and a supported mode,    *)
(* exactly one summary is appended; it is RichModelSummary exactly when    *)
(* trainer._progress_bar_callback is a RichProgressBar; it is the plain    *)
(* ModelSummary when the progress bar is disabled, when the rate is 0 and  *)
(* the list holds no progress bar, or when the progress bar is the plain   *)
(* one.  With a ModelSummary in the list or no mode, nothing is appended.  *)
C10_SummaryFollowsProgressBar ==
    /\ SummaryCase =>
           LET pre == steps.progress_bar[1]
               post == steps.model_summary[1]
           IN  /\ steps.model_summary # None
               /\ \/ AppendsOne(post, pre, "RichModelSummary")
                  \/ AppendsOne(post, pre, "ModelSummary")
               /\ Count(post, "ModelSummary") = 1
               /\ Last(post).type = "RichModelSummary" <=> IsRich(_progress_bar_callback)
               /\ (\/ ~args.enable_progress_bar
                   \/ (/\ args.progress_bar_refresh_rate = Some(0)
                       /\ ~Has(args.callbacks, "ProgressBarBase"))
                   \/ (/\ _progress_bar_callback # None
                       /\ _progress_bar_callback[1].type = "ProgressBar"))
                      => Last(post).type = "ModelSummary"
    /\ Called /\ steps.model_summary # None
           /\ (Has(args.callbacks, "ModelSummary") \/ args.weights_summary = None) =>
           steps.model_summary = steps.progress_bar

C10_Witness ==
    /\ pc = "initialized"
    /\ SummaryCase
    /\ args.progress_bar_refresh_rate = Some(0)
    /\ args.enable_progress_bar
    /\ Has(args.callbacks, "RichProgressBar")
    /\ Has(callbacks, "RichModelSummary")
====
